---- MODULE Spec2Model ----
(***************************************************************************)
(* Model of the post generator: the cache gate of the Flask handler        *)
(* (app.py: generate, cache_status, clear_cache) and the generation path   *)
(* (generate_posts.py: rate limiter, retrying caller, tier fallback,       *)
(* response extraction and post normalisation).                            *)
(*                                                                         *)
(* Text is modelled as sequences of one-character strings.  The cache      *)
(* directory is a map from file key to file; time is counted in hours.     *)
(***************************************************************************)
EXTENDS Integers, Sequences, FiniteSets, TLC

(***************************************************************************)
(* Bounds of the model and program constants.                              *)
(***************************************************************************)
\* app.py:36
CACHE_DURATION_HOURS == 24
\* the clock advances in steps of TickHours up to MaxTime
TickHours == 12
MaxTime == 24
\* train() yields one of NumPayloads artifacts
NumPayloads == 2

\* the buffer of a text file (8 KiB), in units of text
BufUnits == 2

\* generate_posts.py:110  limiter = RateLimiter(1.0, 3)
RATE == 1
BURST == 3
\* generate_posts.py:158  max_retries=4
MAX_RETRIES == 4
\* the generation clock and the token count are counted in 1/Scale of a
\* second and of a token
Scale == 2
\* a generation request starts while the clock reads at most StartBy
StartBy == 2
\* the wall clock read by acquire() is set to values up to MaxLimClock
MaxLimClock == 3
\* each thread calls acquire() at most MaxCalls times
MaxCalls == 3
\* a raw text given to the normaliser has at most MaxLines lines
MaxLines == 3

Payloads == 1..NumPayloads
\* request threads of the (threaded) development server
Reqs == {"r1", "r2"}

(***************************************************************************)
(* Text helpers: str.strip, str.rstrip, str.isalnum, str.lower,            *)
(* str.replace(' ', '_') on sequences of characters.                       *)
(***************************************************************************)
IsSpace(c) == c \in {" ", "\n"}

IsAlnum(c) == c \in {"a", "b", "A", "B", "u", "c", "1"}

Lower(c) == IF c = "A" THEN "a" ELSE IF c = "B" THEN "b" ELSE c

RECURSIVE LStrip(_)
LStrip(s) == IF s # <<>> /\ IsSpace(Head(s)) THEN LStrip(Tail(s)) ELSE s

RECURSIVE RStrip(_)
RStrip(s) ==
    IF s # <<>> /\ IsSpace(s[Len(s)]) THEN RStrip(SubSeq(s, 1, Len(s) - 1)) ELSE s

Strip(s) == RStrip(LStrip(s))

KeepChar(c) == IsAlnum(c) \/ c \in {" ", "_"}

\* mutant: the case of the name is kept
get_cache_path_cased(profile_name) ==
    LET safe == RStrip(SelectSeq(profile_name, KeepChar))
    IN  [i \in 1..Len(safe) |-> IF safe[i] = " " THEN "_" ELSE safe[i]]

\* app.py get_cache_path: the file key (the name between "cache/" and ".json")
get_cache_path(profile_name) ==
    LET safe == RStrip(SelectSeq(profile_name, KeepChar))
    IN  [i \in 1..Len(safe) |-> Lower(IF safe[i] = " " THEN "_" ELSE safe[i])]

(***************************************************************************)
(* Inputs of the handlers.                                                 *)
(***************************************************************************)
Names == { <<" ">>, <<"A">>, <<"a", " ", "!">>, <<"a", " ", "b">> }
Urls == { <<" ">>, <<"u">> }
Criteria == { <<>>, <<" ", "c">> }

Keys == { get_cache_path(Strip(n)) : n \in Names }

\* a JSON value that is not a string (a number, or a field of a body that is
\* null): data.get(...).strip() raises on it
NotText == <<"not a str">>

NameInputs == Names \cup {NotText}

\* the profile names of Spec and SpecConc: a blank one, one cache key, and
\* a value that is not a string
OneKeyNameInputs == { <<" ">>, <<"A">>, NotText }
UrlInputs == Urls \cup {NotText}
CriteriaInputs == Criteria \cup {NotText}

(***************************************************************************)
(* State.                                                                  *)
(*  cache  the cache directory: key -> file.  A file has a content, the    *)
(*         units of text written to it so far, and a modification time.    *)
(*  unlinked  the files that os.remove took out of the directory while a   *)
(*         request held them open: they live until their last handle is    *)
(*         closed, and no path names them.                                 *)
(*  now    the wall clock, in hours.                                       *)
(*  req    per request thread: position in generate() and its locals.      *)
(*  hand   per handler thread of cache_status() and clear_cache(): its     *)
(*         position, the file it found and the clock value it read.        *)
(*  out    the HTTP response sent by the step just taken, if it sent one.  *)
(*  gen    the generation request in progress (generate_posts.py).         *)
(*  lim    the rate limiter: tokens and the time of the last refill.       *)
(*  clock  the wall clock of the generation process.                       *)
(*  callers  per thread calling limiter.acquire(): position in acquire(),  *)
(*         the token count it computed, the time it has to sleep and the   *)
(*         calls it has made.                                              *)
(*  lock   the holder of the limiter's lock, or "free".                    *)
(*  calc   the text function being applied on its own (normaliser,         *)
(*         extractor), with its inputs and results.                        *)
(***************************************************************************)
VARIABLES cache, unlinked, now, req, hand, out, gen, lim, clock, callers, lock, calc

vars == <<cache, unlinked, now, req, hand, out, gen, lim, clock, callers, lock, calc>>

appvars == <<cache, unlinked, now, req, hand, out>>

limvars == <<callers, lock, calc>>

genvars == <<gen, lim, clock, callers, lock, calc>>

(***************************************************************************)
(* Files.  The content of a file is a sequence of units of text, BufUnits  *)
(* of them filling one buffer.  The unit at position i of the text of      *)
(* artifact p is written p: every write starts at offset 0 and goes on     *)
(* from where the last one ended, so a unit of a text only ever lies at    *)
(* its own position.  Texts of different artifacts differ in every piece.  *)
(***************************************************************************)
\* the length of the text of artifact p: more than one buffer, and the
\* artifacts are numbered by the length of their texts
Length(p) == BufUnits + p

\* a unit of NUL bytes: what lies before the offset of a write and was never
\* written
NUL == 0

\* a unit a reader put together from the front of a unit of one artifact
\* and the rest of the unit of another
Mixed == NumPayloads + 1

\* the whole text of artifact p
Artifact(p) == [i \in 1..Length(p) |-> p]

\* by: the profile name of the request that last wrote the file
NoFile == [exists |-> FALSE, content |-> <<>>, mtime |-> 0, by |-> <<>>]

File(content, t, profile_name) ==
    [exists |-> TRUE, content |-> content, mtime |-> t, by |-> profile_name]

\* exit status None is written -1
None == -1

\* cache_age_hours: null, or a number of hours
NoAge == <<>>

Hours(n) == <<n>>

\* what json.load returns for a text that parses and is no artifact
Mixture == -1

\* fh: the file handle the request holds ("linked" to the file its path
\* names, "unlinked" once the path was removed); off: the units it wrote or
\* read; cap, bit: the size of the reader's buffer, cap units and (bit) some
\* bytes more; got: the units it read; part: the front it read of the unit
\* after them; t: the value of time.time() it read
IdleReq ==
    [pc |-> "idle", name |-> <<>>, key |-> <<>>, force |-> FALSE, td |-> 0,
     used |-> FALSE, called |-> {}, fh |-> "none", off |-> 0, cap |-> 0,
     bit |-> FALSE, got |-> <<>>, part |-> <<>>, t |-> 0]

\* handler threads of cache_status() and clear_cache()
Hands == {"h1", "h2"}

IdleHand == [pc |-> "idle", key |-> <<>>, t |-> 0]

NoOut ==
    [op |-> "none", key |-> <<>>, status |-> 0, used |-> FALSE, cached |-> FALSE,
     age |-> NoAge]

Tiers == {"primary", "fallback"}

\* per generation request: position, idea, the tier being tried, the loop
\* index of _generate_with_retries, the acquire() calls completed, and per
\* tier the attempts made, the overload and other errors met, the backoff
\* sleeps taken, how the tier ended and the text extracted from its
\* response; the time limiter.acquire() has to sleep; the value returned, or
\* the message of the exception that left generate_linkedin_post
IdleGen ==
    [pc |-> "idle", idea |-> <<>>, ctx |-> FALSE, tier |-> "primary", attempt |-> 0,
     acquires |-> 0,
     natt |-> [t \in Tiers |-> 0], nover |-> [t \in Tiers |-> 0],
     nerr |-> [t \in Tiers |-> 0], nsleep |-> [t \in Tiers |-> 0],
     tres |-> [t \in Tiers |-> "pending"], text |-> [t \in Tiers |-> <<>>],
     wait |-> 0, placeholder |-> FALSE, result |-> <<>>, error |-> <<>>,
     stdout |-> <<>>, exit |-> None]

\* the threads that call limiter.acquire()
Callers == {"t1", "t2"}

IdleCaller == [pc |-> "out", seen |-> 0, wait |-> 0, calls |-> 0, slept |-> 0]

\* a response of the model: None, or an object whose attribute candidates is
\* missing, None, or a list
NoneResponse ==
    [none |-> TRUE, has_candidates |-> FALSE, candidates_none |-> FALSE,
     candidates |-> <<>>]

Response(has, cands) ==
    [none |-> FALSE, has_candidates |-> has, candidates_none |-> FALSE,
     candidates |-> cands]

\* a candidate: its attribute content is missing, None, or an object whose
\* attribute parts is missing, None, or a list
Candidate(has_content, has_parts, parts) ==
    [has_content |-> has_content, content_none |-> FALSE,
     has_parts |-> has_parts, parts_none |-> FALSE, parts |-> parts]

\* a part: its attribute text is missing, None, or a string
Part(has_text, text) == [has_text |-> has_text, text_none |-> FALSE, text |-> text]

\* the application of a text function: the function applied, its inputs and
\* what it gave
IdleCalc ==
    [f |-> "none", stage |-> "none", raw |-> <<>>, idea |-> <<>>, deduped |-> <<>>,
     once |-> <<>>, twice |-> <<>>, resp |-> NoneResponse, raised |-> FALSE,
     text |-> <<>>]

\* RateLimiter.__init__ (generate_posts.py:94-96)
InitLim == [tokens |-> BURST * Scale, last |-> 0]

Init ==
    /\ cache = [k \in Keys |-> NoFile]
    /\ unlinked = {}
    /\ now = 0
    /\ req = [r \in Reqs |-> IdleReq]
    /\ hand = [h \in Hands |-> IdleHand]
    /\ out = NoOut
    /\ gen = IdleGen
    /\ lim = InitLim
    /\ clock = 0
    /\ callers = [c \in Callers |-> IdleCaller]
    /\ lock = "free"
    /\ calc = IdleCalc

(***************************************************************************)
(* app.py utility functions.                                               *)
(***************************************************************************)
\* get_cache_age_hours, lines 53-54, for a file that exists: t is the value
\* time.time() returned and mtime the value os.path.getmtime returned after it
get_cache_age_hours(t, mtime) == t - mtime

\* mutant: the age may equal the TTL
is_cache_valid_le(age) == age # NoAge /\ age[1] <= CACHE_DURATION_HOURS

\* line 60
is_cache_valid(age) == age # NoAge /\ age[1] < CACHE_DURATION_HOURS

Min(a, b) == IF a < b THEN a ELSE b

Max(a, b) == IF a > b THEN a ELSE b

(***************************************************************************)
(* Reading and writing files through handles.                              *)
(***************************************************************************)
\* the unlinked file the request r holds open
UnlinkedOf(r) == CHOOSE u \in unlinked : r \in u.holders

\* the content of the file behind the handle of r
ContentOf(r) ==
    IF req[r].fh = "linked" THEN cache[req[r].key].content
    ELSE UnlinkedOf(r).content

\* the unlinked files once r wrote content to the one it holds
PutUnlinked(U, r, content) ==
    { IF r \in u.holders THEN [u EXCEPT !.content = content] ELSE u : u \in U }

\* the unlinked files once r closed its handle: a file without handle is gone
Released(U, r) ==
    { [u EXCEPT !.holders = @ \ {r}] : u \in { v \in U : v.holders # {r} } }

\* r closes the handle it holds
Close(r) ==
    /\ unlinked' = IF req[r].fh = "unlinked" THEN Released(unlinked, r) ELSE unlinked
    /\ UNCHANGED cache

\* a write() of r leaves content in its file and sets the modification time;
\* closes: the handle is closed after it
Store(r, content, closes) ==
    IF req[r].fh = "linked"
    THEN /\ cache' = [cache EXCEPT ![req[r].key] = File(content, now, req[r].name)]
         /\ UNCHANGED unlinked
    ELSE /\ unlinked' = IF closes THEN Released(PutUnlinked(unlinked, r, content), r)
                                  ELSE PutUnlinked(unlinked, r, content)
         /\ UNCHANGED cache

\* the content s after a write() of n units of the text of artifact p at the
\* offset off: the writer's offset is its own, so the units replace what
\* lies there, what lies behind them remains, and a file that another
\* writer truncated meanwhile is extended with NUL bytes up to the offset
PutAt(s, off, n, p) ==
    [j \in 1..Max(Len(s), off + n) |->
        IF j > off /\ j <= off + n THEN p
        ELSE IF j <= Len(s) THEN s[j] ELSE NUL]

\* json.load raises JSONDecodeError whatever the artifacts are, on the units
\* s followed by the front f of a further unit (or by none): the text is
\* empty, holds NUL bytes, is the front of the text of one artifact, or goes
\* on after the whole text of one.  Any other text of pieces of several
\* artifacts may be a document: with indent=4 a line of one artifact can
\* close a dict or a list that another opened.
NeverParses(s, f) ==
    \/ s = <<>>
    \/ f = <<NUL>>
    \/ \E i \in 1..Len(s) : s[i] = NUL
    \/ \E p \in Payloads :
          /\ \A i \in 1..Min(Len(s), Length(p)) : s[i] = p
          /\ \/ Len(s) > Length(p)
             \/ Len(s) < Length(p) /\ f \in {<<>>, <<p>>}

(***************************************************************************)
(* generate(): one action per step of the handler that reads the clock,    *)
(* reads or writes the cache directory or a file, or calls a collaborator. *)
(* A step that raises lands in the handler's except clause, which answers  *)
(* 500 (lines 156-158).  get_cache_age_hours asks the file system twice    *)
(* and the clock once: os.path.exists (line 51), then time.time() and      *)
(* os.path.getmtime (line 53, in this order); other threads run between    *)
(* the three, and os.path.getmtime raises FileNotFoundError when the file  *)
(* has been removed meanwhile.                                             *)
(***************************************************************************)
SetReq(r, rec) == req' = [req EXCEPT ![r] = rec]

\* the 500 answer of the except clause
Error500 == [NoOut EXCEPT !.op = "generate", !.status = 500]

\* mutant: the criteria are not checked
AllPresent_no_criteria(profile_url, profile_name, criteria) ==
    profile_url # <<>> /\ profile_name # <<>>

\* line 128: all([profile_url, profile_name, criteria])
AllPresent(profile_url, profile_name, criteria) ==
    profile_url # <<>> /\ profile_name # <<>> /\ criteria # <<>>

\* line 135: the cache decision
UseCache(force_refresh, age) == ~force_refresh /\ is_cache_valid(age)

\* lines 122-135, up to os.path.exists of line 51: read and trim the fields
\* (a field that is not a string raises), reject a blank one with 400, name
\* the cache file; forceRefresh or a missing file leads to the rebuild
Receive(r, url, name, crit, force_refresh) ==
    /\ req[r].pc = "idle"
    /\ IF NotText \in {url, name, crit}
       THEN /\ out' = Error500
            /\ UNCHANGED req
       ELSE LET profile_url == Strip(url)
                profile_name == Strip(name)
                criteria == Strip(crit)
                k == get_cache_path(profile_name)
            IN  IF ~AllPresent(profile_url, profile_name, criteria)
                THEN /\ out' = [NoOut EXCEPT !.op = "generate", !.status = 400]
                     /\ UNCHANGED req
                ELSE /\ out' = NoOut
                     /\ SetReq(r, [IdleReq EXCEPT
                                     !.pc = IF force_refresh \/ ~cache[k].exists
                                            THEN "scrape" ELSE "clock",
                                     !.name = profile_name, !.key = k,
                                     !.force = force_refresh])
    /\ UNCHANGED <<cache, unlinked, now, hand>>
    /\ UNCHANGED genvars

\* line 53, left operand: time.time()
GateClock(r) ==
    /\ req[r].pc = "clock"
    /\ SetReq(r, [req[r] EXCEPT !.pc = "mtime", !.t = now])
    /\ out' = NoOut
    /\ UNCHANGED <<cache, unlinked, now, hand>>
    /\ UNCHANGED genvars

\* lines 53-54, 60, 135: os.path.getmtime of the file found at line 51, and
\* the decision between the cached artifact and a rebuild
CheckCache(r) ==
    /\ req[r].pc = "mtime"
    /\ LET f == cache[req[r].key]
       IN  IF f.exists
           THEN /\ SetReq(r, [req[r] EXCEPT
                    !.pc = IF UseCache(req[r].force,
                                       Hours(get_cache_age_hours(req[r].t, f.mtime)))
                           THEN "read" ELSE "scrape",
                    !.t = 0])
                /\ out' = NoOut
           ELSE /\ SetReq(r, IdleReq)
                /\ out' = Error500
    /\ UNCHANGED <<cache, unlinked, now, hand>>
    /\ UNCHANGED genvars

\* line 136: open(cache_file, "r"); a missing file raises FileNotFoundError
OpenRead(r) ==
    /\ req[r].pc = "read"
    /\ IF cache[req[r].key].exists
       THEN /\ SetReq(r, [req[r] EXCEPT !.pc = "load", !.fh = "linked"])
            /\ out' = NoOut
       ELSE /\ SetReq(r, IdleReq)
            /\ out' = Error500
    /\ UNCHANGED <<cache, unlinked, now, hand>>
    /\ UNCHANGED genvars

\* the buffer of readall is full: the reader q holds cap units and, where
\* the buffer has room for it, the front of the next
Full(q) == q.off = q.cap /\ (q.part # <<>> \/ ~q.bit)

\* the units the buffer of readall holds at the next read() of the reader q:
\* a buffer that is full grows by what it holds and 256 bytes, and by a
\* buffer of 8 KiB at least
Room(q) == IF Full(q) THEN q.off + Max(q.off, BufUnits) ELSE q.cap

\* the unit whose front part was read before and whose rest is that of u
Unit(part, u) == IF part = <<>> \/ part = <<u>> THEN u ELSE Mixed

\* line 137, json.load(f): f.read() asks fstat for the size of the file; its
\* first buffer has that size and one byte, and 8 KiB for an empty file
ReadStat(r) ==
    /\ req[r].pc = "load"
    /\ LET size == Len(ContentOf(r))
       IN  SetReq(r, [req[r] EXCEPT !.pc = "reading", !.off = 0, !.got = <<>>,
                        !.part = <<>>, !.bit = size # 0,
                        !.cap = IF size = 0 THEN BufUnits ELSE size])
    /\ out' = NoOut
    /\ UNCHANGED <<cache, unlinked, now, hand>>
    /\ UNCHANGED genvars

\* line 137, json.load(f): one read() of f.read(), which takes what the file
\* holds past the reader's position, as far as the buffer has room: whole
\* units, and the front of one more when the file goes on
ReadBlocks(r) ==
    /\ req[r].pc = "reading"
    /\ LET s == ContentOf(r)
           q == req[r]
           cap == Room(q)
           bit == Full(q) \/ q.bit
           to == Min(Len(s), cap)
           units == [i \in 1..(to - q.off) |->
                        IF i = 1 THEN Unit(q.part, s[q.off + 1]) ELSE s[q.off + i]]
       IN  /\ Len(s) > q.off
           /\ SetReq(r, [q EXCEPT !.off = to, !.cap = cap, !.bit = bit,
                           !.got = @ \o units,
                           !.part = IF Len(s) > cap /\ bit
                                    THEN <<s[cap + 1]>> ELSE <<>>])
    /\ out' = NoOut
    /\ UNCHANGED <<cache, unlinked, now, hand>>
    /\ UNCHANGED genvars

\* the read() past the end of the file, which ends f.read()
AtEnd(r) == req[r].pc = "reading" /\ Len(ContentOf(r)) <= req[r].off

\* what json.load makes of the text it read, the units s and the front f of
\* one more: the artifact whose text it is (white space may follow the
\* document), a document that is no artifact, or 0 when it raises
\* JSONDecodeError; parses says whether a text that may parse does
Loaded(s, f, parses) ==
    IF \E p \in Payloads : s = Artifact(p)
    THEN IF f = <<>> \/ (f # <<NUL>> /\ parses)
         THEN CHOOSE p \in Payloads : s = Artifact(p) ELSE 0
    ELSE IF ~NeverParses(s, f) /\ parses THEN Mixture ELSE 0

\* the hit, or the 500 answer of the except clause to a JSONDecodeError
Parsed(r, td) ==
    IF td # 0
    THEN /\ SetReq(r, [req[r] EXCEPT !.pc = "post", !.td = td, !.used = TRUE,
                                     !.fh = "none", !.off = 0, !.cap = 0,
                                     !.bit = FALSE, !.got = <<>>, !.part = <<>>])
         /\ out' = NoOut
    ELSE /\ SetReq(r, IdleReq)
         /\ out' = Error500

\* mutant: a hit marks the entry as used now
ReadCache_touch(r, parses) ==
    /\ AtEnd(r)
    /\ Parsed(r, Loaded(req[r].got, req[r].part, parses))
    /\ IF req[r].fh = "linked"
       THEN /\ cache' = [cache EXCEPT ![req[r].key].mtime = now]
            /\ UNCHANGED unlinked
       ELSE Close(r)
    /\ UNCHANGED <<now, hand>>
    /\ UNCHANGED genvars

\* lines 137-138: the read() that finds the end of the file, json.loads of
\* the text read, whatever the path names by now, and the close of the with
\* block.  A text that is no JSON document raises JSONDecodeError.
ReadCache(r, parses) ==
    /\ AtEnd(r)
    /\ Parsed(r, Loaded(req[r].got, req[r].part, parses))
    /\ Close(r)
    /\ UNCHANGED <<now, hand>>
    /\ UNCHANGED genvars

\* a collaborator call that returns (and the handler moves to pc next) or raises
Call(r, what, ok, next, td) ==
    LET called == req[r].called \cup {what}
    IN  IF ok
        THEN /\ SetReq(r, [req[r] EXCEPT !.pc = next, !.called = called, !.td = td])
             /\ out' = NoOut
        ELSE /\ SetReq(r, IdleReq)
             /\ out' = Error500

\* line 141: s2.scrape_profile_posts(profile_url)
Scrape(r, ok) ==
    /\ req[r].pc = "scrape"
    /\ Call(r, "scrape", ok, "index", 0)
    /\ UNCHANGED <<cache, unlinked, now, hand>>
    /\ UNCHANGED genvars

\* line 142: build_index.build_index(posts)
BuildIndex(r, ok) ==
    /\ req[r].pc = "index"
    /\ Call(r, "index", ok, "train", 0)
    /\ UNCHANGED <<cache, unlinked, now, hand>>
    /\ UNCHANGED genvars

\* line 143: train_model.train(posts) yields artifact p, or raises (p = 0)
Train(r, p) ==
    /\ req[r].pc = "train"
    /\ Call(r, "train", p # 0, "open", p)
    /\ UNCHANGED <<cache, unlinked, now, hand>>
    /\ UNCHANGED genvars

\* line 144: open(cache_file, "w") creates the file or truncates it in place
OpenWrite(r, ok) ==
    /\ req[r].pc = "open"
    /\ IF ok
       THEN /\ cache' = [cache EXCEPT ![req[r].key] = File(<<>>, now, req[r].name)]
            /\ SetReq(r, [req[r] EXCEPT !.pc = "dump", !.fh = "linked", !.off = 0])
            /\ out' = NoOut
       ELSE /\ SetReq(r, IdleReq)
            /\ out' = Error500
            /\ UNCHANGED cache
    /\ UNCHANGED <<unlinked, now, hand>>
    /\ UNCHANGED genvars

\* line 145: one write() of json.dump(trained_data, f, indent=4), the next
\* buffer of the text at the writer's offset; after the last one the with
\* block closes the file.  A writer whose file was removed after it opened
\* it writes to a file no path names any more.
Dump(r) ==
    /\ req[r].pc = "dump"
    /\ LET n == Min(BufUnits, Length(req[r].td) - req[r].off)
           last == req[r].off + n = Length(req[r].td)
       IN  /\ Store(r, PutAt(ContentOf(r), req[r].off, n, req[r].td), last)
           /\ IF last
              THEN SetReq(r, [req[r] EXCEPT !.pc = "post", !.fh = "none", !.off = 0])
              ELSE SetReq(r, [req[r] EXCEPT !.off = @ + n])
    /\ out' = NoOut
    /\ UNCHANGED <<now, hand>>
    /\ UNCHANGED genvars

\* line 145: json.dump raises on a value of the artifact that is not
\* serialisable, and the close of the with block writes the n units of text
\* that are buffered: none when the value comes first or right behind a
\* write() of json.dump, at most a buffer, and not the end of the text
DumpFails(r, n) ==
    /\ req[r].pc = "dump"
    /\ req[r].off + n < Length(req[r].td)
    /\ IF n > 0
       THEN Store(r, PutAt(ContentOf(r), req[r].off, n, req[r].td), TRUE)
       ELSE Close(r)
    /\ SetReq(r, IdleReq)
    /\ out' = Error500
    /\ UNCHANGED <<now, hand>>
    /\ UNCHANGED genvars

\* the 200 answer of lines 149-154, with the age read from the file
Answer200(r, age) ==
    [op |-> "generate", key |-> req[r].key, status |-> 200, used |-> req[r].used,
     cached |-> FALSE, age |-> age]

\* lines 148-151, up to os.path.exists of line 51:
\* generate_posts.create_post(criteria, trained_data) returns or raises; the
\* meta block asks for the file's age, None when there is no file
Finish(r, ok) ==
    /\ req[r].pc = "post"
    /\ IF ~ok
       THEN /\ out' = Error500
            /\ SetReq(r, IdleReq)
       ELSE IF cache[req[r].key].exists
            THEN /\ out' = NoOut
                 /\ SetReq(r, [req[r] EXCEPT !.pc = "metaclock"])
            ELSE /\ out' = Answer200(r, NoAge)
                 /\ SetReq(r, IdleReq)
    /\ UNCHANGED <<cache, unlinked, now, hand>>
    /\ UNCHANGED genvars

\* line 53, left operand, called from line 151: time.time()
MetaClock(r) ==
    /\ req[r].pc = "metaclock"
    /\ SetReq(r, [req[r] EXCEPT !.pc = "meta", !.t = now])
    /\ out' = NoOut
    /\ UNCHANGED <<cache, unlinked, now, hand>>
    /\ UNCHANGED genvars

\* lines 53-54 and 151-154: os.path.getmtime of the file found at line 51,
\* and the 200 answer
Meta(r) ==
    /\ req[r].pc = "meta"
    /\ LET f == cache[req[r].key]
       IN  IF f.exists
           THEN out' = Answer200(r, Hours(get_cache_age_hours(req[r].t, f.mtime)))
           ELSE out' = Error500
    /\ SetReq(r, IdleReq)
    /\ UNCHANGED <<cache, unlinked, now, hand>>
    /\ UNCHANGED genvars

(***************************************************************************)
(* cache_status() and clear_cache(), each served by a handler thread.      *)
(***************************************************************************)
SetHand(h, rec) == hand' = [hand EXCEPT ![h] = rec]

\* app.py:84-90, up to os.path.exists of line 51: a profile name that is not
\* a string raises (500, lines 96-98), a blank one is answered 400, no file
\* is answered with a null age
CacheStatus(h, name) ==
    /\ hand[h].pc = "idle"
    /\ IF name = NotText
       THEN /\ out' = [NoOut EXCEPT !.op = "status", !.status = 500]
            /\ UNCHANGED hand
       ELSE LET profile_name == Strip(name)
                k == get_cache_path(profile_name)
            IN  IF profile_name = <<>>
                THEN /\ out' = [NoOut EXCEPT !.op = "status", !.status = 400]
                     /\ UNCHANGED hand
                ELSE IF ~cache[k].exists
                THEN /\ out' = [NoOut EXCEPT !.op = "status", !.key = k,
                                             !.status = 200, !.cached = FALSE,
                                             !.age = NoAge]
                     /\ UNCHANGED hand
                ELSE /\ out' = NoOut
                     /\ SetHand(h, [IdleHand EXCEPT !.pc = "clock", !.key = k])
    /\ UNCHANGED <<cache, unlinked, now, req>>
    /\ UNCHANGED genvars

\* line 53, left operand: time.time()
CacheStatusClock(h) ==
    /\ hand[h].pc = "clock"
    /\ SetHand(h, [hand[h] EXCEPT !.pc = "mtime", !.t = now])
    /\ out' = NoOut
    /\ UNCHANGED <<cache, unlinked, now, req>>
    /\ UNCHANGED genvars

\* lines 53-54 and 91-95: os.path.getmtime of the file found at line 51, and
\* the answer; 500 (lines 96-98) when the file is gone
CacheStatusAge(h) ==
    /\ hand[h].pc = "mtime"
    /\ LET k == hand[h].key
       IN  IF cache[k].exists
           THEN out' = [NoOut EXCEPT
                          !.op = "status", !.key = k, !.status = 200,
                          !.cached = TRUE,
                          !.age = Hours(get_cache_age_hours(hand[h].t, cache[k].mtime))]
           ELSE out' = [NoOut EXCEPT !.op = "status", !.key = k, !.status = 500]
    /\ SetHand(h, IdleHand)
    /\ UNCHANGED <<cache, unlinked, now, req>>
    /\ UNCHANGED genvars

\* app.py:104-107 and 110-111: a profile name that is not a string raises
\* (500, lines 112-114); os.path.exists, and 404 when there is no file
ClearCache(h, name) ==
    /\ hand[h].pc = "idle"
    /\ IF name = NotText
       THEN /\ out' = [NoOut EXCEPT !.op = "clear", !.status = 500]
            /\ UNCHANGED hand
       ELSE LET k == get_cache_path(Strip(name))
            IN  IF cache[k].exists
                THEN /\ out' = NoOut
                     /\ SetHand(h, [IdleHand EXCEPT !.pc = "remove", !.key = k])
                ELSE /\ out' = [NoOut EXCEPT !.op = "clear", !.key = k, !.status = 404]
                     /\ UNCHANGED hand
    /\ UNCHANGED <<cache, unlinked, now, req>>
    /\ UNCHANGED genvars

\* the requests that hold the file of key k open
Holders(k) == { r \in Reqs : req[r].fh = "linked" /\ req[r].key = k }

\* lines 108-109: os.remove unlinks the path, and raises FileNotFoundError
\* (500, lines 112-114) when the file is gone; the requests that hold the
\* file open keep reading and writing it
Remove(h) ==
    /\ hand[h].pc = "remove"
    /\ LET k == hand[h].key
       IN  IF cache[k].exists
           THEN /\ cache' = [cache EXCEPT ![k] = NoFile]
                /\ unlinked' = IF Holders(k) = {} THEN unlinked
                               ELSE unlinked \cup {[holders |-> Holders(k),
                                                    content |-> cache[k].content]}
                /\ req' = [r \in Reqs |->
                             IF r \in Holders(k)
                             THEN [req[r] EXCEPT !.fh = "unlinked"] ELSE req[r]]
                /\ out' = [NoOut EXCEPT !.op = "clear", !.key = k, !.status = 200]
           ELSE /\ out' = [NoOut EXCEPT !.op = "clear", !.key = k, !.status = 500]
                /\ UNCHANGED <<cache, unlinked, req>>
    /\ SetHand(h, IdleHand)
    /\ UNCHANGED now
    /\ UNCHANGED genvars

\* the wall clock advances
Tick ==
    /\ now + TickHours <= MaxTime
    /\ now' = now + TickHours
    /\ out' = NoOut
    /\ UNCHANGED <<cache, unlinked, req, hand>>
    /\ UNCHANGED genvars

(***************************************************************************)
(* Spec: one request thread serves generate(), while one handler thread    *)
(* serves cache_status() and clear_cache() and the clock runs between      *)
(* their steps.  The profile names are those of one cache key.             *)
(***************************************************************************)
Next ==
    \/ \E url \in UrlInputs, name \in OneKeyNameInputs, crit \in CriteriaInputs,
          force_refresh \in BOOLEAN : Receive("r1", url, name, crit, force_refresh)
    \/ GateClock("r1")
    \/ CheckCache("r1")
    \/ OpenRead("r1")
    \/ ReadStat("r1")
    \/ ReadBlocks("r1")
    \/ \E parses \in BOOLEAN : ReadCache("r1", parses)
    \/ \E ok \in BOOLEAN : Scrape("r1", ok)
    \/ \E ok \in BOOLEAN : BuildIndex("r1", ok)
    \/ \E p \in Payloads \cup {0} : Train("r1", p)
    \/ \E ok \in BOOLEAN : OpenWrite("r1", ok)
    \/ Dump("r1")
    \/ \E n \in 0..BufUnits : DumpFails("r1", n)
    \/ \E ok \in BOOLEAN : Finish("r1", ok)
    \/ MetaClock("r1")
    \/ Meta("r1")
    \/ \E name \in OneKeyNameInputs : CacheStatus("h1", name)
    \/ CacheStatusClock("h1")
    \/ CacheStatusAge("h1")
    \/ \E name \in OneKeyNameInputs : ClearCache("h1", name)
    \/ Remove("h1")
    \/ Tick

Spec == Init /\ [][Next]_vars

(***************************************************************************)
(* SpecConc: two request threads serve generate() concurrently (the        *)
(* development server is threaded), with one handler thread serving        *)
(* clear_cache() between their steps; the clock stands still.  The profile *)
(* names are those of one cache key.                                       *)
(***************************************************************************)
NextConc ==
    \/ \E r \in Reqs, url \in UrlInputs, name \in OneKeyNameInputs, crit \in CriteriaInputs,
          force_refresh \in BOOLEAN : Receive(r, url, name, crit, force_refresh)
    \/ \E r \in Reqs : GateClock(r)
    \/ \E r \in Reqs : CheckCache(r)
    \/ \E r \in Reqs : OpenRead(r)
    \/ \E r \in Reqs : ReadStat(r)
    \/ \E r \in Reqs : ReadBlocks(r)
    \/ \E r \in Reqs, parses \in BOOLEAN : ReadCache(r, parses)
    \/ \E r \in Reqs, ok \in BOOLEAN : Scrape(r, ok)
    \/ \E r \in Reqs, ok \in BOOLEAN : BuildIndex(r, ok)
    \/ \E r \in Reqs, p \in Payloads \cup {0} : Train(r, p)
    \/ \E r \in Reqs, ok \in BOOLEAN : OpenWrite(r, ok)
    \/ \E r \in Reqs : Dump(r)
    \/ \E r \in Reqs, n \in 0..BufUnits : DumpFails(r, n)
    \/ \E r \in Reqs, ok \in BOOLEAN : Finish(r, ok)
    \/ \E r \in Reqs : MetaClock(r)
    \/ \E r \in Reqs : Meta(r)
    \/ \E name \in OneKeyNameInputs : ClearCache("h1", name)
    \/ Remove("h1")

SpecConc == Init /\ [][NextConc]_vars

(***************************************************************************)
(* SpecHand: one request thread serves generate() while two handler        *)
(* threads serve cache_status() and clear_cache() concurrently, each       *)
(* between the other's test of the file and its use; the clock stands      *)
(* still.  The profile names are those of two cache keys, one of them      *)
(* shared by two names.                                                    *)
(***************************************************************************)
NextHand ==
    \/ \E url \in UrlInputs, name \in NameInputs, crit \in CriteriaInputs,
          force_refresh \in BOOLEAN : Receive("r1", url, name, crit, force_refresh)
    \/ GateClock("r1")
    \/ CheckCache("r1")
    \/ OpenRead("r1")
    \/ ReadStat("r1")
    \/ ReadBlocks("r1")
    \/ \E parses \in BOOLEAN : ReadCache("r1", parses)
    \/ \E ok \in BOOLEAN : Scrape("r1", ok)
    \/ \E ok \in BOOLEAN : BuildIndex("r1", ok)
    \/ \E p \in Payloads \cup {0} : Train("r1", p)
    \/ \E ok \in BOOLEAN : OpenWrite("r1", ok)
    \/ Dump("r1")
    \/ \E n \in 0..BufUnits : DumpFails("r1", n)
    \/ \E ok \in BOOLEAN : Finish("r1", ok)
    \/ MetaClock("r1")
    \/ Meta("r1")
    \/ \E h \in Hands, name \in NameInputs : CacheStatus(h, name)
    \/ \E h \in Hands : CacheStatusClock(h)
    \/ \E h \in Hands : CacheStatusAge(h)
    \/ \E h \in Hands, name \in NameInputs : ClearCache(h, name)
    \/ \E h \in Hands : Remove(h)

SpecHand == Init /\ [][NextHand]_vars

(***************************************************************************)
(* Properties of the cache gate.                                           *)
(***************************************************************************)
\* the text of the file of key k is an artifact, whole
Whole(k) == \E p \in Payloads : cache[k].content = Artifact(p)

\* the age of the file of key k, for a file that exists
AgeOf(k) == now - cache[k].mtime

\* a text that is empty after trimming
Blank(s) == \A i \in 1..Len(s) : s[i] = " "

\* thread r takes the step that leaves pc from for pc to
Moves(r, from, to) == req[r].pc = from /\ req'[r].pc = to

RebuildPcs == {"scrape", "index", "train", "open", "dump"}

\* C1: a generate request with all fields present reuses the cached artifact
\* iff an entry exists for its key, forceRefresh is false and the entry's age
\* is below the TTL; otherwise it starts the rebuild, and the rebuild's
\* persist step leaves the entry holding its result, written now.  (The age
\* is the one the request measures: the clock it read at line 53 less the
\* file's modification time.  The request goes on to read the clock and the
\* file's time only when forceRefresh is false and the file is there; a
\* request whose file is removed before that read is answered an error, as
\* after any failure of the store, and a rebuild whose file is removed while
\* it writes stores into a file that is no entry any more.)
C1_Step ==
    \A r \in Reqs :
        /\ (req[r].pc = "idle" /\ req'[r].pc # "idle") =>
               /\ req'[r].pc \in {"clock", "scrape"}
               /\ req'[r].pc = "clock" <=>
                      (cache[req'[r].key].exists /\ ~req'[r].force)
        /\ Moves(r, "clock", "mtime") => req'[r].t = now
        /\ (req[r].pc = "mtime" /\ req'[r].pc \notin {"mtime", "idle"}) =>
               /\ req'[r].pc \in {"read", "scrape"}
               /\ req'[r].pc = "read" <=>
                      (/\ cache[req[r].key].exists
                       /\ req[r].t - cache[req[r].key].mtime < CACHE_DURATION_HOURS
                       /\ ~req[r].force)
        /\ (req[r].pc = "mtime" /\ req'[r].pc = "idle") => ~cache[req[r].key].exists
        /\ (Moves(r, "dump", "post") /\ req[r].fh = "linked") =>
               cache'[req[r].key] = File(Artifact(req[r].td), now, req[r].name)

\* C1: every step reuses the cache iff the entry is fresh and not forced, and
\* a completed rebuild overwrites the entry.
C1_CacheReuseIffFresh == [][C1_Step]_vars

\* an entry whose age equals the TTL is rebuilt, without forceRefresh
C1_Witness ==
    /\ req["r1"].pc = "scrape" /\ ~req["r1"].force
    /\ cache[req["r1"].key].exists
    /\ now - cache[req["r1"].key].mtime = CACHE_DURATION_HOURS

\* C2: a cache hit uses a payload that a rebuild persisted for the key (the
\* artifact train returned to it, as json.dump wrote it), answers
\* used_cache = true with the entry's age, and calls none of scrape, index
\* build and train.
C2_Step ==
    \A r \in Reqs :
        /\ Moves(r, "reading", "post") =>
               /\ req'[r].td \in Payloads
               /\ req'[r].used
        /\ req'[r].used => req'[r].called = {}
        /\ (req[r].pc \in {"post", "meta"} /\ req[r].used /\ req'[r].pc = "idle"
              /\ out'.status = 200) =>
               /\ out'.used
               /\ out'.key = req[r].key
               /\ cache[req[r].key].exists =>
                      out'.age = Hours(req[r].t - cache[req[r].key].mtime)
               /\ ~cache[req[r].key].exists => out'.age = NoAge

\* C2: every step of a cache hit uses the persisted artifact, reports its
\* age and calls no rebuild collaborator.
C2_CacheHitUsesPersisted == [][C2_Step]_vars

\* C3: when a rebuild step or the persisting of its result fails, the
\* request answers a failure, the entry is as it was and no empty or partial
\* entry exists.
C3_Step ==
    \A r \in Reqs :
        (req[r].pc \in RebuildPcs /\ req'[r].pc = "idle") =>
            /\ out'.op = "generate" /\ out'.status = 500
            /\ cache'[req[r].key] = cache[req[r].key]
            /\ \A k \in Keys : cache'[k].exists => Whole(k)'

\* C3: every failing rebuild step answers a failure and leaves the entry as
\* it was, with no empty or partial entry.
C3_FailedRebuildLeavesEntry == [][C3_Step]_vars

\* C4: a request that reads the cache file finds no file or a whole artifact,
\* whatever another request is writing.
C4_Step ==
    \A r \in Reqs :
        /\ (req[r].pc = "read" /\ req'[r].pc # "read") =>
               (~cache[req[r].key].exists \/ Whole(req[r].key))
        /\ (req[r].pc = "reading" /\ req'[r].pc # "reading") =>
               /\ \E p \in Payloads : req[r].got = Artifact(p)
               /\ req[r].part = <<>>

\* C4: every read of the cache file finds no file or a whole artifact.
C4_ReaderSeesWholeEntry == [][C4_Step]_vars

\* C5: a generate request with a field that is blank after trimming answers
\* 400 at once: the thread runs no step of the handler, so no collaborator is
\* called, and the cache and the rate limiter are left as they are.
C5_Step ==
    \A r \in Reqs, url \in Urls, name \in Names, crit \in Criteria, f \in BOOLEAN :
        ((Blank(url) \/ Blank(name) \/ Blank(crit)) /\ Receive(r, url, name, crit, f))
            => /\ out'.op = "generate" /\ out'.status = 400
               /\ req' = req
               /\ cache' = cache
               /\ unlinked' = unlinked
               /\ lim' = lim
               /\ gen' = gen

\* C5: every request with a blank field answers 400 and touches neither the
\* cache, nor the handler's steps, nor the limiter.
C5_MissingFieldRejected == [][C5_Step]_vars

\* a request with a blank field has been answered 400
C5_Witness == out.op = "generate" /\ out.status = 400

(***************************************************************************)
(* generate_posts.py: text functions.                                      *)
(***************************************************************************)
LowerCase ==
    << "a", "b", "c", "d", "e", "f", "g", "h", "i", "j", "k", "l", "m",
       "n", "o", "p", "q", "r", "s", "t", "u", "v", "w", "x", "y", "z" >>

UpperCase ==
    << "A", "B", "C", "D", "E", "F", "G", "H", "I", "J", "K", "L", "M",
       "N", "O", "P", "Q", "R", "S", "T", "U", "V", "W", "X", "Y", "Z" >>

ToLower(c) ==
    IF \E i \in 1..26 : UpperCase[i] = c
    THEN LowerCase[CHOOSE i \in 1..26 : UpperCase[i] = c] ELSE c

ToUpper(c) ==
    IF \E i \in 1..26 : LowerCase[i] = c
    THEN UpperCase[CHOOSE i \in 1..26 : LowerCase[i] = c] ELSE c

\* str.capitalize
Capitalize(w) ==
    [i \in 1..Len(w) |-> IF i = 1 THEN ToUpper(w[i]) ELSE ToLower(w[i])]

\* the index of the first c in s, 0 when there is none
IndexOf(s, c) ==
    IF \E i \in 1..Len(s) : s[i] = c
    THEN CHOOSE i \in 1..Len(s) : s[i] = c /\ \A j \in 1..(i - 1) : s[j] # c
    ELSE 0

\* str.splitlines
RECURSIVE SplitLines(_)
SplitLines(s) ==
    IF s = <<>> THEN <<>>
    ELSE LET i == IndexOf(s, "\n")
         IN  IF i = 0 THEN <<s>>
             ELSE <<SubSeq(s, 1, i - 1)>> \o SplitLines(SubSeq(s, i + 1, Len(s)))

\* str.split(): the maximal runs of non-space characters
RECURSIVE SplitWords(_)
SplitWords(s) ==
    LET t == LStrip(s)
    IN  IF t = <<>> THEN <<>>
        ELSE LET n == IF \E i \in 1..Len(t) : IsSpace(t[i])
                      THEN (CHOOSE i \in 1..Len(t) :
                               IsSpace(t[i]) /\ \A j \in 1..(i - 1) : ~IsSpace(t[j])) - 1
                      ELSE Len(t)
             IN  <<SubSeq(t, 1, n)>> \o SplitWords(SubSeq(t, n + 1, Len(t)))

\* sep.join(parts)
RECURSIVE Join(_, _)
Join(parts, sep) ==
    IF parts = <<>> THEN <<>>
    ELSE IF Len(parts) = 1 THEN parts[1]
    ELSE parts[1] \o sep \o Join(Tail(parts), sep)

\* mutant: only a repetition of the line just before is dropped
RECURSIVE KeepFirst_adjacent(_, _)
KeepFirst_adjacent(lines, seen) ==
    IF lines = <<>> THEN <<>>
    ELSE LET clean == Strip(Head(lines))
         IN  IF clean # <<>> /\ clean \notin seen
             THEN <<clean>> \o KeepFirst_adjacent(Tail(lines), {clean})
             ELSE KeepFirst_adjacent(Tail(lines), seen)

\* the lines kept by deduplicate_text: trimmed, non-blank, first occurrence
RECURSIVE KeepFirst(_, _)
KeepFirst(lines, seen) ==
    IF lines = <<>> THEN <<>>
    ELSE LET clean == Strip(Head(lines))
         IN  IF clean # <<>> /\ clean \notin seen
             THEN <<clean>> \o KeepFirst(Tail(lines), seen \cup {clean})
             ELSE KeepFirst(Tail(lines), seen)

\* generate_posts.py:124-132
deduplicate_text(text) == Strip(Join(KeepFirst(SplitLines(text), {}), <<"\n">>))

\* line 182
ClosingPrompt ==
    << "\n", "\n", "W", "h", "a", "t", " ", "d", "o", " ", "y", "o", "u",
       " ", "t", "h", "i", "n", "k", "?" >>

IsHashtagLine(line) == LET t == Strip(line) IN t # <<>> /\ t[1] = "#"

NotHashtagLine(line) == ~IsHashtagLine(line)

\* line 177: len(w) > 3
LongWord(w) == Len(w) > 3

\* generate_posts.py:172-183
apply_post_processing(post, idea) ==
    IF post = <<>> THEN post
    ELSE LET kept == Join(SelectSeq(SplitLines(post), NotHashtagLine), <<"\n">>)
             words == SelectSeq(SplitWords(idea), LongWord)
             keywords == SubSeq(words, 1, IF Len(words) < 3 THEN Len(words) ELSE 3)
             hashtags == Join([i \in 1..Len(keywords) |->
                                 <<"#">> \o Capitalize(keywords[i])], <<" ">>)
             tagged == IF hashtags # <<>> THEN kept \o <<"\n", "\n">> \o hashtags
                                          ELSE kept
             asked == IF \E i \in 1..Len(tagged) : tagged[i] = "?"
                      THEN tagged ELSE tagged \o ClosingPrompt
         IN  Strip(asked)

(***************************************************************************)
(* generate_posts.py: the model's responses and safe_response_to_text.     *)
(* A response is None, or an object that may lack the candidates           *)
(* attribute; a candidate may lack content, its content may lack parts, a  *)
(* part may lack text; an attribute that is present may hold None.         *)
(***************************************************************************)
HasText(p) == p.has_text

\* the texts of the parts that have one (line 119)
PartTexts(c) ==
    LET ps == SelectSeq(c.parts, HasText) IN [i \in 1..Len(ps) |-> ps[i].text]

\* the loop of lines 117-122 over the candidates
RECURSIVE FirstCandidateText(_)
FirstCandidateText(cands) ==
    IF cands = <<>> THEN <<>>
    ELSE LET c == Head(cands)
         IN  IF c.has_content /\ ~c.content_none /\ c.has_parts /\ PartTexts(c) # <<>>
             THEN Strip(Join(PartTexts(c), <<" ">>))
             ELSE FirstCandidateText(Tail(cands))

\* generate_posts.py:113-122
safe_response_to_text(response) ==
    IF response.none \/ ~response.has_candidates THEN <<>>
    ELSE FirstCandidateText(response.candidates)

\* line 117 iterates response.candidates, line 119 c.content.parts, and line
\* 121 joins the texts: a None in place of the list, or of a text, raises
\* TypeError; the loop raises when it meets one before it returns
RECURSIVE CandidatesRaise(_)
CandidatesRaise(cands) ==
    IF cands = <<>> THEN FALSE
    ELSE LET c == Head(cands)
         IN  IF c.has_content /\ ~c.content_none /\ c.has_parts
             THEN IF c.parts_none THEN TRUE
                  ELSE IF PartTexts(c) # <<>>
                       THEN \E i \in 1..Len(c.parts) :
                                c.parts[i].has_text /\ c.parts[i].text_none
                       ELSE CandidatesRaise(Tail(cands))
             ELSE CandidatesRaise(Tail(cands))

\* safe_response_to_text raises instead of returning
ExtractRaises(response) ==
    /\ ~response.none
    /\ response.has_candidates
    /\ response.candidates_none \/ CandidatesRaise(response.candidates)

\* str(e) of the TypeError raised by iterating None (lines 117, 119)
NotIterable ==
    << "'", "N", "o", "n", "e", "T", "y", "p", "e", "'", " ", "o", "b", "j",
       "e", "c", "t", " ", "i", "s", " ", "n", "o", "t", " ", "i", "t", "e",
       "r", "a", "b", "l", "e" >>

Digit(n) == <<"0", "1", "2", "3", "4", "5", "6", "7", "8", "9">>[n + 1]

\* str(e) of the TypeError raised by " ".join at line 121 when the item with
\* 0-based index n is None
NotStr(n) ==
    << "s", "e", "q", "u", "e", "n", "c", "e", " ", "i", "t", "e", "m",
       " " >>
    \o <<Digit(n)>> \o
    << ":", " ", "e", "x", "p", "e", "c", "t", "e", "d", " ", "s", "t", "r",
       " ", "i", "n", "s", "t", "a", "n", "c", "e", ",", " ", "N", "o", "n",
       "e", "T", "y", "p", "e", " ", "f", "o", "u", "n", "d" >>

\* the 0-based index, in the list built at line 119, of the first None
FirstNone(c) ==
    LET ps == SelectSeq(c.parts, HasText)
    IN  (CHOOSE i \in 1..Len(ps) :
             ps[i].text_none /\ \A j \in 1..(i - 1) : ~ps[j].text_none) - 1

\* the message of the exception the loop of lines 117-122 raises
RECURSIVE CandidatesError(_)
CandidatesError(cands) ==
    LET c == Head(cands)
    IN  IF c.has_content /\ ~c.content_none /\ c.has_parts
        THEN IF c.parts_none THEN NotIterable
             ELSE IF PartTexts(c) # <<>> THEN NotStr(FirstNone(c))
                  ELSE CandidatesError(Tail(cands))
        ELSE CandidatesError(Tail(cands))

\* the message of the exception safe_response_to_text raises on a response
\* for which ExtractRaises holds
ExtractError(response) ==
    IF response.candidates_none THEN NotIterable
    ELSE CandidatesError(response.candidates)

(***************************************************************************)
(* Inputs of a generation request.                                         *)
(***************************************************************************)
Ideas ==
    { <<" ">>,
      <<"a", "i">>,
      <<"t", "e", "c", "h", " ", "n", "e", "w", "s">>,
      <<"a", "\n", "#", "b", "b">> }

\* an idea with four words longer than 3 characters, in mixed case, among
\* shorter ones: "bIG data for smart CITIES today"
LongIdea ==
    << "b", "I", "G", " ", "d", "a", "t", "a", " ", "f", "o", "r", " ",
       "s", "m", "a", "r", "t", " ", "C", "I", "T", "I", "E", "S", " ",
       "t", "o", "d", "a", "y" >>

\* the ideas given to the normaliser
TextIdeas == Ideas \cup {LongIdea}

Texts ==
    { <<"H", "i", "\n", "H", "i", "\n", "#", "t", "a", "g">>,
      <<"o", "k", "?">> }

TextResponse(t) == Response(TRUE, <<Candidate(TRUE, TRUE, <<Part(TRUE, t)>>)>>)

Responses ==
    { TextResponse(t) : t \in Texts } \cup
    { Response(FALSE, <<>>),
      Response(TRUE, <<>>),
      Response(TRUE, <<Candidate(FALSE, FALSE, <<>>)>>),
      Response(TRUE, <<Candidate(TRUE, FALSE, <<>>)>>),
      Response(TRUE, <<Candidate(TRUE, TRUE, <<Part(FALSE, <<>>)>>)>>),
      Response(TRUE, <<Candidate(TRUE, TRUE, <<Part(TRUE, <<" ">>)>>),
                       Candidate(TRUE, TRUE, <<Part(TRUE, <<"x">>)>>)>>),
      Response(TRUE, <<Candidate(TRUE, TRUE, <<>>),
                       Candidate(TRUE, TRUE, <<Part(TRUE, <<"#", "x">>),
                                               Part(FALSE, <<>>),
                                               Part(TRUE, <<"y">>)>>)>>) }

\* responses whose attributes hold None in place of a list or of a text
NullShapes ==
    { [Response(TRUE, <<>>) EXCEPT !.candidates_none = TRUE],
      Response(TRUE, <<[Candidate(TRUE, FALSE, <<>>) EXCEPT !.content_none = TRUE]>>),
      Response(TRUE, <<[Candidate(TRUE, TRUE, <<>>) EXCEPT !.parts_none = TRUE]>>),
      Response(TRUE, <<Candidate(TRUE, TRUE,
                           <<[Part(TRUE, <<>>) EXCEPT !.text_none = TRUE]>>)>>),
      Response(TRUE, <<Candidate(TRUE, TRUE, <<Part(TRUE, <<"x">>)>>),
                       [Candidate(TRUE, TRUE, <<>>) EXCEPT !.parts_none = TRUE]>>) }

\* what model.generate_content does in one attempt: it raises
\* ResourceExhausted / TooManyRequests, raises another exception, or returns
\* a response, whose attributes may hold None
Outcomes ==
    { [kind |-> "overload", response |-> NoneResponse],
      [kind |-> "error", response |-> NoneResponse] } \cup
    { [kind |-> "response", response |-> r] : r \in Responses \cup NullShapes }

(***************************************************************************)
(* generate_posts.py, the rate limiter.  SpecLim: threads calling          *)
(* limiter.acquire() statement by statement,                               *)
(* under a wall clock (time.time()) that can be set forward and backward.  *)
(***************************************************************************)
\* mutant: the refill drops the capacity
Refill_uncapped(l, t) == [tokens |-> l.tokens + (t - l.last) * RATE, last |-> t]

\* lines 100-103: the refill when the clock reads t
Refill(l, t) ==
    [tokens |-> Min(BURST * Scale, l.tokens + (t - l.last) * RATE), last |-> t]

\* mutant: the with statement takes no lock
LockFree_unlocked(l) == TRUE

\* line 99: `with self.lock` proceeds when no thread holds the lock
LockFree(l) == l = "free"

SetCaller(c, rec) == callers' = [callers EXCEPT ![c] = rec]

\* line 99: enter the critical section
LimLock(c) ==
    /\ callers[c].pc = "out"
    /\ callers[c].calls < MaxCalls
    /\ LockFree(lock)
    /\ lock' = c
    /\ SetCaller(c, [callers[c] EXCEPT !.pc = "in", !.calls = @ + 1])
    /\ UNCHANGED <<lim, clock, gen>>
    /\ UNCHANGED <<appvars, calc>>

\* mutant: the deficit is not waited for
WaitFor_none(tokens) == 0

\* line 105: the time to sleep for the missing part of a token
WaitFor(tokens) == (Scale - tokens) \div RATE

\* lines 100-104: read the clock, refill, and decide
LimRefill(c) ==
    /\ callers[c].pc = "in"
    /\ lim' = Refill(lim, clock)
    /\ IF lim'.tokens < Scale
       THEN SetCaller(c, [callers[c] EXCEPT !.pc = "sleep", !.seen = lim'.tokens,
                                            !.wait = WaitFor(lim'.tokens)])
       ELSE SetCaller(c, [callers[c] EXCEPT !.pc = "take", !.seen = lim'.tokens,
                                            !.wait = 0])
    /\ UNCHANGED <<lock, clock, gen>>
    /\ UNCHANGED <<appvars, calc>>

\* line 105: time.sleep
LimSleep(c) ==
    /\ callers[c].pc = "sleep"
    /\ clock' = clock + callers[c].wait
    /\ SetCaller(c, [callers[c] EXCEPT !.pc = "zero", !.slept = callers[c].wait])
    /\ UNCHANGED <<lim, lock, gen>>
    /\ UNCHANGED <<appvars, calc>>

\* leaving the with block releases the lock this thread took
Release(c) == lock' = IF lock = c THEN "free" ELSE lock

\* line 106: self.tokens = 0, and leave
LimZero(c) ==
    /\ callers[c].pc = "zero"
    /\ lim' = [lim EXCEPT !.tokens = 0]
    /\ Release(c)
    /\ SetCaller(c, [callers[c] EXCEPT !.pc = "out"])
    /\ UNCHANGED <<clock, gen>>
    /\ UNCHANGED <<appvars, calc>>

\* line 108: self.tokens -= 1, and leave
LimTake(c) ==
    /\ callers[c].pc = "take"
    /\ lim' = [lim EXCEPT !.tokens = @ - Scale]
    /\ Release(c)
    /\ SetCaller(c, [callers[c] EXCEPT !.pc = "out", !.slept = 0])
    /\ UNCHANGED <<clock, gen>>
    /\ UNCHANGED <<appvars, calc>>

\* time.time() is the wall clock: it advances, and it can be set back
ClockSet(t) ==
    /\ t # clock
    /\ clock' = t
    /\ UNCHANGED <<lim, gen, callers, lock>>
    /\ UNCHANGED <<appvars, calc>>

NextLim ==
    \/ \E c \in Callers : LimLock(c)
    \/ \E c \in Callers : LimRefill(c)
    \/ \E c \in Callers : LimSleep(c)
    \/ \E c \in Callers : LimZero(c)
    \/ \E c \in Callers : LimTake(c)
    \/ \E t \in 0..MaxLimClock : ClockSet(t)

SpecLim == Init /\ [][NextLim]_vars

\* the clock of a machine whose time is never set back
ClockAdvance(t) ==
    /\ t > clock
    /\ ClockSet(t)

\* SpecLimMono: the same threads under a clock that never goes back
NextLimMono ==
    \/ \E c \in Callers : LimLock(c)
    \/ \E c \in Callers : LimRefill(c)
    \/ \E c \in Callers : LimSleep(c)
    \/ \E c \in Callers : LimZero(c)
    \/ \E c \in Callers : LimTake(c)
    \/ \E t \in 0..MaxLimClock : ClockAdvance(t)

SpecLimMono == Init /\ [][NextLimMono]_vars

(***************************************************************************)
(* Properties of the rate limiter (SpecLim).                               *)
(***************************************************************************)
Capacity == BURST * Scale

OneToken == Scale

\* thread c takes the step that leaves pc from for pc to
Steps(c, from, to) == callers[c].pc = from /\ callers'[c].pc = to

\* the token count the refill of the present state yields
Refilled ==
    LET raw == lim.tokens + (clock - lim.last) * RATE
    IN  IF raw > Capacity THEN Capacity ELSE raw

InCall(c) == callers[c].pc # "out"

\* C11: acquire() refills to min(capacity, tokens + elapsed * rate); with at
\* least one token it returns without waiting and leaves the count one
\* lower; otherwise it sleeps (1 - tokens) / rate and leaves the count 0.
\* With no token and no time elapsed the sleep is 1 / rate, which is
\* positive.
C11_Step ==
    \A c \in Callers :
        /\ (callers[c].pc = "in" /\ callers'[c].pc # "in") =>
               /\ lim'.tokens = Refilled
               /\ callers'[c].seen = Refilled
               /\ Refilled >= OneToken =>
                      callers'[c].pc = "take" /\ callers'[c].wait = 0
               /\ Refilled < OneToken =>
                      /\ callers'[c].pc = "sleep"
                      /\ callers'[c].wait * RATE = OneToken - Refilled
               /\ (lim.tokens = 0 /\ clock = lim.last) =>
                      /\ callers'[c].wait * RATE = OneToken
                      /\ callers'[c].wait > 0
        /\ Steps(c, "take", "out") =>
               /\ lim'.tokens = callers[c].seen - OneToken
               /\ clock' = clock
        /\ callers[c].pc = "take" => callers'[c].pc \in {"take", "out"}
        /\ Steps(c, "sleep", "zero") => clock' - clock = callers[c].wait
        /\ callers[c].pc = "sleep" => callers'[c].pc \in {"sleep", "zero"}
        /\ Steps(c, "zero", "out") => lim'.tokens = 0
        /\ callers[c].pc = "zero" => callers'[c].pc \in {"zero", "out"}

\* C11: every step of acquire() refills, decides and updates the count as
\* stated.
C11_AcquireRefillsThenTakesOrWaits == [][C11_Step]_vars

\* after BURST calls with no time elapsed, one more call has slept 1 / rate
C11_Witness ==
    /\ callers["t1"].calls + callers["t2"].calls = BURST + 1
    /\ lim.last = 0
    /\ \E c \in Callers : callers[c].pc = "zero" /\ callers[c].slept * RATE = OneToken

\* C12: the calls of acquire() never overlap: at most one thread is between
\* the read of the clock and its update of the token count, its sleep
\* included, that thread holds the lock, and the count it decided on is still
\* the limiter's count when it updates it.
C12_AcquireIsCriticalSection ==
    /\ \A c, d \in Callers : (InCall(c) /\ InCall(d)) => c = d
    /\ \A c \in Callers : InCall(c) => lock = c
    /\ \A c \in Callers :
           callers[c].pc \in {"take", "sleep", "zero"} => lim.tokens = callers[c].seen

\* a thread sleeps inside acquire() while the other has a call to make
C12_Witness ==
    /\ callers["t1"].pc = "zero"
    /\ callers["t2"].pc = "out"
    /\ callers["t2"].calls < MaxCalls

\* C13: the token count is within 0 .. capacity in every state, whatever the
\* clock reads.
C13_TokensInRange == 0 <= lim.tokens /\ lim.tokens <= Capacity

(***************************************************************************)
(* generate_posts.py: generate_linkedin_post and _generate_with_retries.   *)
(***************************************************************************)
ErrorEmptyIdea ==
    << "E", "r", "r", "o", "r", ":", " ", "E", "m", "p", "t", "y", " ",
       "i", "d", "e", "a", " ", "p", "r", "o", "v", "i", "d", "e", "d",
       "." >>

PlaceholderHead ==
    << "H", "e", "r", "e", "'", "s", " ", "a", " ", "q", "u", "i", "c",
       "k", " ", "t", "h", "o", "u", "g", "h", "t", " ", "o", "n", " " >>

PlaceholderTail ==
    << ":", " ", "e", "v", "e", "r", "y", " ", "j", "o", "u", "r", "n",
       "e", "y", " ", "b", "e", "g", "i", "n", "s", " ", "w", "i", "t",
       "h", " ", "a", " ", "s", "p", "a", "r", "k", " ", "o", "f", " ",
       "v", "i", "s", "i", "o", "n", "." >>

\* line 198
Placeholder(idea) == PlaceholderHead \o idea \o PlaceholderTail

RECURSIVE Pow2(_)
Pow2(n) == IF n = 0 THEN 1 ELSE 2 * Pow2(n - 1)

\* the tier t ends with text (extracted from its response, empty when it
\* returned None)
EndTier(g, t, how, text) ==
    [g EXCEPT !.pc = "tier_done", !.tres[t] = how, !.text[t] = text]

\* lines 186-191: reject a blank idea, else fetch the contexts and build the
\* prompt
GenStart(idea) ==
    /\ gen.pc \in {"idle", "done", "raised"}
    /\ clock <= StartBy
    /\ IF Strip(idea) = <<>>
       THEN gen' = [IdleGen EXCEPT !.pc = "done", !.idea = idea,
                                   !.result = ErrorEmptyIdea]
       ELSE gen' = [IdleGen EXCEPT !.pc = "acquire", !.idea = idea, !.ctx = TRUE]
    /\ UNCHANGED <<lim, clock>>
    /\ UNCHANGED <<appvars, limvars>>

\* the thread that serves the generation request, as holder of the
\* limiter's lock
GenThread == "main"

\* lines 159, 99: limiter.acquire(), once per call of _generate_with_retries,
\* enters the critical section when the lock is free
GenLock ==
    /\ gen.pc = "acquire"
    /\ LockFree(lock)
    /\ lock' = GenThread
    /\ gen' = [gen EXCEPT !.pc = "refill"]
    /\ UNCHANGED <<lim, clock, callers, calc>>
    /\ UNCHANGED appvars

\* lines 100-104: read the clock, refill, and decide, the lock held
GenRefill ==
    /\ gen.pc = "refill"
    /\ lim' = Refill(lim, clock)
    /\ IF lim'.tokens < Scale
       THEN gen' = [gen EXCEPT !.pc = "wait", !.wait = WaitFor(lim'.tokens)]
       ELSE gen' = [gen EXCEPT !.pc = "take", !.wait = 0]
    /\ UNCHANGED <<clock, lock, callers, calc>>
    /\ UNCHANGED appvars

\* line 105: time.sleep for the missing part of a token, the lock held
GenWait ==
    /\ gen.pc = "wait"
    /\ clock' = clock + gen.wait
    /\ gen' = [gen EXCEPT !.pc = "zero"]
    /\ UNCHANGED <<lim, lock, callers, calc>>
    /\ UNCHANGED appvars

\* line 106: self.tokens = 0, and leave the critical section
GenZero ==
    /\ gen.pc = "zero"
    /\ lim' = [lim EXCEPT !.tokens = 0]
    /\ Release(GenThread)
    /\ gen' = [gen EXCEPT !.pc = "model", !.acquires = @ + 1]
    /\ UNCHANGED <<clock, callers, calc>>
    /\ UNCHANGED appvars

\* line 108: self.tokens -= 1, and leave the critical section
GenTake ==
    /\ gen.pc = "take"
    /\ lim' = [lim EXCEPT !.tokens = @ - Scale]
    /\ Release(GenThread)
    /\ gen' = [gen EXCEPT !.pc = "model", !.acquires = @ + 1]
    /\ UNCHANGED <<clock, callers, calc>>
    /\ UNCHANGED appvars

\* str(e) of an exception raised by the client library's constructor
ClientError == <<"b", "a", "d", " ", "m", "o", "d", "e", "l">>

\* the call ends with an exception that leaves generate_linkedin_post
Raise(g, message) == [g EXCEPT !.pc = "raised", !.error = message]

\* line 160: build the client; the call is outside the try of lines 162-168,
\* so an exception it raises leaves _generate_with_retries
GenModel(ok) ==
    /\ gen.pc = "model"
    /\ IF ok
       THEN gen' = [gen EXCEPT !.pc = "attempt", !.attempt = 0]
       ELSE gen' = Raise(gen, ClientError)
    /\ UNCHANGED <<lim, clock>>
    /\ UNCHANGED <<appvars, limvars>>

\* mutant: another error is retried like an overload
AfterRaise_retry_all(kind) == "sleep"

\* lines 164-168: an overload error leads to the backoff sleep, any other
\* exception to the break
AfterRaise(kind) == IF kind = "overload" THEN "sleep" ELSE "break"

\* lines 161-168: one pass of the loop body; a response is returned to lines
\* 193 / 196, where safe_response_to_text is applied to it outside any try
GenAttempt(o) ==
    /\ gen.pc = "attempt"
    /\ LET t == gen.tier
           g == [gen EXCEPT !.natt[t] = @ + 1]
       IN  IF o.kind = "response"
           THEN IF ExtractRaises(o.response)
                THEN gen' = Raise([g EXCEPT !.tres[t] = "response"],
                                  ExtractError(o.response))
                ELSE gen' = EndTier(g, t, "response",
                                    safe_response_to_text(o.response))
           ELSE LET h == [g EXCEPT !.nover[t] = IF o.kind = "overload" THEN @ + 1 ELSE @,
                                   !.nerr[t] = IF o.kind = "error" THEN @ + 1 ELSE @]
                IN  IF AfterRaise(o.kind) = "sleep"
                    THEN gen' = [h EXCEPT !.pc = "sleep"]
                    ELSE gen' = EndTier(h, t, "none", safe_response_to_text(NoneResponse))
    /\ UNCHANGED <<lim, clock>>
    /\ UNCHANGED <<appvars, limvars>>

\* mutant: one more pass of the loop
LoopEnds_late(attempt) == attempt > MAX_RETRIES

\* line 161: range(max_retries) is exhausted after the pass with this index
LoopEnds(attempt) == attempt + 1 >= MAX_RETRIES

\* line 165: time.sleep(2**attempt + random.random()), then the next pass of
\* the loop, or return None when the range is exhausted
GenSleep(jitter) ==
    /\ gen.pc = "sleep"
    /\ clock' = clock + Pow2(gen.attempt) * Scale + jitter
    /\ LET t == gen.tier
           g == [gen EXCEPT !.nsleep[t] = @ + 1]
       IN  IF LoopEnds(gen.attempt)
           THEN gen' = EndTier(g, t, "none", safe_response_to_text(NoneResponse))
           ELSE gen' = [g EXCEPT !.pc = "attempt", !.attempt = @ + 1]
    /\ UNCHANGED lim
    /\ UNCHANGED <<appvars, limvars>>

\* mutant: the fallback tier is tried whatever the primary tier yielded
NeedsFallback_always(g) == g.tier = "primary"

\* line 194: the fallback tier is tried when the primary text is empty
NeedsFallback(g) == g.tier = "primary" /\ g.text["primary"] = <<>>

\* lines 194-195
GenFallback ==
    /\ gen.pc = "tier_done"
    /\ NeedsFallback(gen)
    /\ gen' = [gen EXCEPT !.pc = "acquire", !.tier = "fallback"]
    /\ UNCHANGED <<lim, clock>>
    /\ UNCHANGED <<appvars, limvars>>

\* mutant: the text of the primary tier is kept
LastPost_primary(g) == g.text["primary"]

\* the value of post at line 197: the text of the last tier tried
LastPost(g) == g.text[g.tier]

\* line 197
UsePlaceholder(post) == post = <<>>

\* lines 197-201: the placeholder when post is empty, then the normalisation
GenFinalize ==
    /\ gen.pc = "tier_done"
    /\ ~NeedsFallback(gen)
    /\ LET post == LastPost(gen)
           chosen == IF UsePlaceholder(post) THEN Placeholder(gen.idea) ELSE post
       IN  gen' = [gen EXCEPT !.pc = "done", !.placeholder = UsePlaceholder(post),
                              !.result = apply_post_processing(deduplicate_text(chosen),
                                                               gen.idea)]
    /\ UNCHANGED <<lim, clock>>
    /\ UNCHANGED <<appvars, limvars>>

ErrorPrefix == <<"E", "r", "r", "o", "r", ":", " ">>

\* lines 211-216 of the command line: the value generate_linkedin_post
\* returned is printed and the process ends with status 0; an exception that
\* left it is printed as "Error: " and its message, and the process ends with
\* status 1
GenCliExit ==
    /\ gen.pc \in {"done", "raised"}
    /\ IF gen.pc = "done"
       THEN gen' = [gen EXCEPT !.pc = "exited", !.stdout = gen.result, !.exit = 0]
       ELSE gen' = [gen EXCEPT !.pc = "exited", !.stdout = ErrorPrefix \o gen.error,
                               !.exit = 1]
    /\ UNCHANGED <<lim, clock>>
    /\ UNCHANGED <<appvars, limvars>>

(***************************************************************************)
(* SpecGen: generation requests served one after the other by one process, *)
(* which as the command line ends after printing a result or the message   *)
(* of an exception.                                                        *)
(***************************************************************************)
NextGen ==
    \/ \E idea \in Ideas : GenStart(idea)
    \/ GenLock
    \/ GenRefill
    \/ GenWait
    \/ GenZero
    \/ GenTake
    \/ \E ok \in BOOLEAN : GenModel(ok)
    \/ \E o \in Outcomes : GenAttempt(o)
    \/ \E jitter \in 0..(Scale - 1) : GenSleep(jitter)
    \/ GenFallback
    \/ GenFinalize
    \/ GenCliExit

SpecGen == Init /\ [][NextGen]_vars

(***************************************************************************)
(* SpecText: the text functions of generate_posts.py applied on their own  *)
(* to inputs drawn from bounded sets.                                      *)
(***************************************************************************)
\* the lines raw texts are made of: empty, plain, indented, blank, a
\* hashtag line, a line with a question mark
RawLines ==
    { <<>>, <<"H", "i">>, <<" ", "H", "i">>, <<" ">>, <<"#", "t">>, <<"o", "k", "?">> }

RawTexts ==
    { Join(ls, <<"\n">>) : ls \in UNION { [1..n -> RawLines] : n \in 0..MaxLines } }

\* line 199 applied to a raw text
NormDedupe(raw, idea) ==
    /\ calc.f = "none"
    /\ calc' = [IdleCalc EXCEPT !.f = "normalize", !.stage = "deduped", !.raw = raw,
                                !.idea = idea, !.deduped = deduplicate_text(raw)]
    /\ UNCHANGED <<appvars, gen, lim, clock, callers, lock>>

\* line 200 applied to the deduplicated text
NormPost ==
    /\ calc.f = "normalize" /\ calc.stage = "deduped"
    /\ calc' = [calc EXCEPT !.stage = "post",
                            !.once = apply_post_processing(calc.deduped, calc.idea)]
    /\ UNCHANGED <<appvars, gen, lim, clock, callers, lock>>

\* lines 199-200 applied to their own result, with the same idea
NormAgain ==
    /\ calc.f = "normalize" /\ calc.stage = "post"
    /\ calc' = [calc EXCEPT !.stage = "again",
                            !.twice = apply_post_processing(deduplicate_text(calc.once),
                                                            calc.idea)]
    /\ UNCHANGED <<appvars, gen, lim, clock, callers, lock>>

\* the response shapes given to the extractor: those the client library
\* returns and None
Shapes == Responses \cup {NoneResponse} \cup NullShapes

\* lines 113-122 applied to a response
Extract(response) ==
    /\ calc.f = "none"
    /\ calc' = [IdleCalc EXCEPT !.f = "extract", !.stage = "done", !.resp = response,
                                !.raised = ExtractRaises(response),
                                !.text = IF ExtractRaises(response) THEN <<>>
                                         ELSE safe_response_to_text(response)]
    /\ UNCHANGED <<appvars, gen, lim, clock, callers, lock>>

NextText ==
    \/ \E raw \in RawTexts, idea \in TextIdeas : NormDedupe(raw, idea)
    \/ NormPost
    \/ NormAgain
    \/ \E response \in Shapes : Extract(response)

SpecText == Init /\ [][NextText]_vars

(***************************************************************************)
(* Properties of the generation pipeline (SpecGen).                        *)
(***************************************************************************)
Finished(t) == gen.tres[t] # "pending"

Served == gen.pc = "done" /\ Strip(gen.idea) # <<>>

\* the normalisation of lines 199-200
Normalized(post, idea) == apply_post_processing(deduplicate_text(post), idea)

\* s occurs in t as a run of consecutive characters
IsInfix(s, t) ==
    \E i \in 0..(Len(t) - Len(s)) : SubSeq(t, i + 1, i + Len(s)) = s

SingleLine(s) == \A i \in 1..Len(s) : s[i] # "\n"

\* the request has ended: generate_linkedin_post returned or raised
Ended == gen.pc \in {"done", "raised"} /\ Strip(gen.idea) # <<>>

\* C6: a request with a non-blank idea always ends with a post that is not
\* empty and is not an error report, and never with a failure, however its
\* tiers ended (overloaded on every attempt, another error, a response
\* without text or without the expected structure); when both tiers yielded
\* empty text the post is the normalised placeholder built from the idea,
\* which for an idea of one line contains the idea.
C6_AlwaysAPost ==
    Ended =>
        /\ gen.pc = "done"
        /\ gen.result # <<>>
        /\ gen.result # ErrorEmptyIdea
        /\ (gen.text["primary"] = <<>> /\ gen.text["fallback"] = <<>>) =>
               /\ gen.placeholder
               /\ gen.result = Normalized(PlaceholderHead \o gen.idea \o PlaceholderTail,
                                          gen.idea)
               /\ SingleLine(gen.idea) => IsInfix(gen.idea, gen.result)

\* what holds of the requests that return: the post is not empty, and is the
\* normalised placeholder when both tiers yielded empty text
PostWhenReturned ==
    Served =>
        /\ gen.result # <<>>
        /\ gen.result # ErrorEmptyIdea
        /\ (gen.text["primary"] = <<>> /\ gen.text["fallback"] = <<>>) =>
               /\ gen.placeholder
               /\ gen.result = Normalized(PlaceholderHead \o gen.idea \o PlaceholderTail,
                                          gen.idea)

\* C7: the tiers are tried in a fixed order: the fallback tier is tried only
\* after the primary tier ended with empty text, and exactly then; once a
\* tier yielded text no further tier is tried; the placeholder is produced
\* exactly when both tiers yielded empty text.
C7_TierOrder ==
    /\ (gen.tier = "fallback" \/ gen.natt["fallback"] > 0 \/ Finished("fallback")) =>
           /\ gen.natt["primary"] > 0
           /\ Finished("primary")
           /\ gen.text["primary"] = <<>>
    /\ Served =>
           /\ Finished("primary")
           /\ Finished("fallback") <=> gen.text["primary"] = <<>>
           /\ gen.natt["fallback"] > 0 <=> gen.text["primary"] = <<>>
           /\ gen.placeholder <=>
                  (gen.text["primary"] = <<>> /\ gen.text["fallback"] = <<>>)

C7_Witness ==
    /\ Served
    /\ gen.text["primary"] = <<>>
    /\ gen.tres["primary"] = "response"
    /\ gen.text["fallback"] # <<>>

\* C8: when every attempt on the primary tier yielded empty text and the
\* fallback tier yields the text T on its first attempt, the result is the
\* normalised T.
C8_FallbackTextUsed ==
    (/\ Served
     /\ gen.text["primary"] = <<>>
     /\ gen.natt["fallback"] = 1
     /\ gen.text["fallback"] # <<>>) =>
        /\ ~gen.placeholder
        /\ gen.result = Normalized(gen.text["fallback"], gen.idea)

C8_Witness ==
    /\ Served
    /\ gen.text["primary"] = <<>>
    /\ gen.natt["fallback"] = 1
    /\ gen.text["fallback"] = <<"H", "i", "\n", "H", "i", "\n", "#", "t", "a", "g">>
    /\ gen.result # gen.text["fallback"]

\* C9: a tier whose every attempt fails with an overload error is attempted
\* exactly MAX_RETRIES times and then ends in failure; no tier is attempted
\* more often.
C9_OverloadExhaustsRetries ==
    \A t \in Tiers :
        /\ gen.natt[t] <= MAX_RETRIES
        /\ (Finished(t) /\ gen.nover[t] = gen.natt[t]) =>
               /\ gen.natt[t] = MAX_RETRIES
               /\ gen.tres[t] = "none"
               /\ gen.text[t] = <<>>

C9_Witness ==
    /\ Finished("primary")
    /\ gen.nover["primary"] = MAX_RETRIES
    /\ gen.natt["primary"] = MAX_RETRIES

\* C10: an attempt that fails with an error other than an overload ends the
\* tier in failure at once: the tier makes no further attempt and takes no
\* backoff sleep after it, whatever the number of attempts left.
C10_Step ==
    \A t \in Tiers :
        /\ gen'.nerr[t] > gen.nerr[t] =>
               /\ gen'.pc = "tier_done"
               /\ gen'.tres[t] = "none"
               /\ gen'.nsleep = gen.nsleep
               /\ clock' = clock
        /\ (gen.nerr[t] > 0 /\ gen'.nerr[t] > 0) =>
               /\ gen'.natt[t] = gen.natt[t]
               /\ gen'.nsleep[t] = gen.nsleep[t]

\* C10: every attempt that fails with another error ends its tier without a
\* further attempt or sleep.
C10_OtherErrorNoRetry == [][C10_Step]_vars

C10_Witness ==
    /\ gen.nerr["primary"] = 1
    /\ gen.nover["primary"] = 2
    /\ gen.natt["primary"] = 3
    /\ gen.nsleep["primary"] = 2
    /\ gen.pc = "done"

(***************************************************************************)
(* Properties of the normaliser (SpecText).                                *)
(***************************************************************************)
HasQuestionMark(t) == \E i \in 1..Len(t) : t[i] = "?"

\* some character of t is not white space
HasNonBlank(t) == \E i \in 1..Len(t) : t[i] \notin {" ", "\n"}

NormalizedOnce == calc.f = "normalize" /\ calc.stage \in {"post", "again"}

\* C14: for every raw text and idea the normaliser's output contains a
\* question mark.
C14_AlwaysQuestionMark == NormalizedOnce => HasQuestionMark(calc.once)

\* C15: normalising the normaliser's output again, with the same idea, gives
\* the same text.
C15_NormalizeIdempotent ==
    (calc.f = "normalize" /\ calc.stage = "again") => calc.twice = calc.once

\* the trimmed lines of a text
TrimmedLines(t) == LET ls == SplitLines(t) IN [i \in 1..Len(ls) |-> Strip(ls[i])]

\* the position of the first occurrence of line l in the lines ls
FirstAt(ls, l) == CHOOSE i \in 1..Len(ls) : ls[i] = l /\ \A j \in 1..(i - 1) : ls[j] # l

NoLineTwice(ls) ==
    \A i, j \in 1..Len(ls) : (i # j /\ ls[i] # <<>>) => ls[i] # ls[j]

\* C16: deduplication keeps each distinct non-blank line (lines compared
\* trimmed) exactly once, in the order of the first occurrences, and drops
\* blank lines; no non-blank line occurs twice in the normalised post.
C16_DedupKeepsFirstOccurrences ==
    (calc.f = "normalize" /\ calc.stage # "none") =>
        LET inl == TrimmedLines(calc.raw)
            outl == SplitLines(calc.deduped)
        IN  /\ \A i \in 1..Len(outl) : outl[i] # <<>> /\ outl[i] = Strip(outl[i])
            /\ NoLineTwice(outl)
            /\ {outl[i] : i \in 1..Len(outl)} = {inl[i] : i \in 1..Len(inl)} \ {<<>>}
            /\ \A i, j \in 1..Len(outl) :
                   i < j => FirstAt(inl, outl[i]) < FirstAt(inl, outl[j])
            /\ calc.stage \in {"post", "again"} => NoLineTwice(TrimmedLines(calc.once))

\* a raw text with a line repeated after another line and a blank line has
\* been normalised
C16_Witness ==
    /\ calc.f = "normalize" /\ calc.stage = "post"
    /\ calc.raw = <<"H", "i", "\n", "o", "k", "?", "\n", " ", "H", "i">>
    /\ calc.deduped = <<"H", "i", "\n", "o", "k", "?">>

(***************************************************************************)
(* Properties of the extractor (SpecText).                                 *)
(***************************************************************************)
\* some candidate of the response carries a part with a text
CarriesText(response) ==
    /\ ~response.none /\ response.has_candidates /\ ~response.candidates_none
    /\ \E i \in 1..Len(response.candidates) :
           LET c == response.candidates[i]
           IN  /\ c.has_content /\ ~c.content_none /\ c.has_parts /\ ~c.parts_none
               /\ \E j \in 1..Len(c.parts) :
                      c.parts[j].has_text /\ ~c.parts[j].text_none

\* C17: the extractor never raises, whatever the shape of the response; it
\* returns the empty text for a response without a candidate that carries
\* text, and a non-empty text only for a response with such a candidate.
C17_ExtractorNeverRaises ==
    calc.f = "extract" =>
        /\ ~calc.raised
        /\ ~CarriesText(calc.resp) => calc.text = <<>>

(***************************************************************************)
(* Properties of the command line (SpecGen).                               *)
(***************************************************************************)
\* C18: on the command line an idea that is blank after trimming ends the
\* process with a non-zero exit status, without a limiter acquire, a context
\* fetch or a model call.
C18_BlankIdeaCliError ==
    (gen.pc = "exited" /\ ~HasNonBlank(gen.idea)) =>
        /\ gen.exit # 0
        /\ gen.acquires = 0
        /\ ~gen.ctx
        /\ \A t \in Tiers : gen.natt[t] = 0

(***************************************************************************)
(* Properties of the cache entry's life (Spec).                            *)
(***************************************************************************)
NoGenerateRunning == \A r \in Reqs : req[r].pc = "idle"

\* what the operations other than a rebuild do to the entries: only a
\* successful clearCache removes one, clearCache succeeds iff the entry is
\* there and leaves none, cacheStatus reports the entry as it is, and a
\* generate that finds no entry rebuilds
C19_Operations ==
    /\ \A k \in Keys :
           (cache[k].exists /\ ~cache'[k].exists) =>
               out'.op = "clear" /\ out'.status = 200 /\ out'.key = k
    /\ (out'.op = "clear" /\ out'.status # 500) =>
           /\ out'.status \in {200, 404}
           /\ out'.status = 200 <=> cache[out'.key].exists
           /\ ~cache'[out'.key].exists
    /\ (out'.op = "status" /\ out'.status = 200) =>
           /\ out'.cached <=> cache[out'.key].exists
           /\ out'.age = NoAge <=> ~cache[out'.key].exists
    /\ \A r \in Reqs :
           (req[r].pc = "idle" /\ req'[r].pc # "idle" /\ ~cache[req'[r].key].exists) =>
               req'[r].pc = "scrape"

\* between operations every entry there is was written by a successful
\* rebuild
C19_EntriesAreRebuilt ==
    NoGenerateRunning' => \A k \in Keys : cache'[k].exists => Whole(k)'

C19_Step == C19_Operations /\ C19_EntriesAreRebuilt

\* C19: over any sequence of generate, cacheStatus and clearCache an entry
\* exists exactly from its first successful rebuild until a clearCache for
\* its key; clearCache succeeds iff the entry existed, after it cacheStatus
\* reports no entry and a null age, a second clearCache answers not found, and
\* the next generate rebuilds.
C19_EntryLifecycle == [][C19_Step]_vars

\* the part of C19 that does not depend on how a rebuild persists
C19_OperationsHold == [][C19_Operations]_vars

(***************************************************************************)
(* Properties of concurrent rebuilds (SpecConc).                           *)
(***************************************************************************)
Rebuilding(r, k) == req[r].pc \in RebuildPcs /\ req[r].key = k

\* C20: under any interleaving of generate requests at most one rebuild is
\* in progress for a key: two requests never both run the rebuild for it.
C20_OneRebuildPerKey ==
    \A k \in Keys : \A r, q \in Reqs : (Rebuilding(r, k) /\ Rebuilding(q, k)) => r = q

(***************************************************************************)
(* Properties of the retrying caller and the limiter it uses (SpecGen).    *)
(***************************************************************************)
Attempts == gen.natt["primary"] + gen.natt["fallback"]

\* C21: every attempt sent to the model, each retry included, is preceded by
\* its own acquire(): the attempts made never exceed the acquire() calls
\* completed.
C21_AcquirePerAttempt == Attempts <= gen.acquires

(***************************************************************************)
(* Properties of the limiter under clock anomalies and of its rate         *)
(* (SpecLim).                                                              *)
(***************************************************************************)
\* C22: when acquire() reads a clock earlier than the last refill time the
\* elapsed time counts as zero: the refill leaves the token count as it was,
\* no refill ever lowers it, and the sleep decided on is at most 1 / rate.
C22_Step ==
    \A c \in Callers :
        (callers[c].pc = "in" /\ callers'[c].pc # "in") =>
            /\ lim'.tokens >= lim.tokens
            /\ clock < lim.last => lim'.tokens = lim.tokens
            /\ callers'[c].wait * RATE <= OneToken

\* C22: every refill step treats a negative elapsed time as zero.
C22_BackwardClockClamped == [][C22_Step]_vars

\* the calls of acquire() that have returned
Returned ==
    LET done(c) == callers[c].calls - (IF InCall(c) THEN 1 ELSE 0)
    IN  done("t1") + done("t2")

\* C23: under a clock that never goes back, the calls of acquire() that have
\* returned by time t after the limiter's creation number at most
\* capacity + rate * t; the time slept inside acquire() is not credited again
\* by the next refill.
C23_RateCapped == Returned * OneToken <= Capacity + RATE * clock

(***************************************************************************)
(* Termination of a generation request (SpecGen).  A request with a        *)
(* non-blank idea is under way from GenStart until generate_linkedin_post  *)
(* returns or raises.  Termination is stated in the form a finite run      *)
(* refutes: a natural number, StepsLeft, bounds the steps the request can  *)
(* still take and strictly decreases on each of them; a request under way  *)
(* always has a step to take; and the only state that follows the last     *)
(* step is a terminal one.  Under the claim's assumption (the lock is      *)
(* granted and sleeps end, i.e. an enabled step is eventually taken) the   *)
(* request then ends within StepsLeft steps.                               *)
(***************************************************************************)
AcquirePcs == {"acquire", "refill", "wait", "zero", "take", "model"}

UnderWay == gen.pc \in AcquirePcs \cup {"attempt", "sleep", "tier_done"}

\* SUCCESS or GIVE_UP: generate_linkedin_post returned a post
Terminal == gen.pc = "done" /\ gen.result # <<>>

AttemptsBounded ==
    /\ \A t \in Tiers : gen.natt[t] <= MAX_RETRIES
    /\ Attempts <= 2 * MAX_RETRIES

\* the steps one call of _generate_with_retries can still take before it
\* returns: those of the acquire, the constructor, then for each pass left
\* an attempt and a sleep
TierStepsLeft(g) ==
    CASE g.pc = "acquire"   -> 2 * MAX_RETRIES + 5
      [] g.pc = "refill"    -> 2 * MAX_RETRIES + 4
      [] g.pc = "wait"      -> 2 * MAX_RETRIES + 3
      [] g.pc = "zero"      -> 2 * MAX_RETRIES + 2
      [] g.pc = "take"      -> 2 * MAX_RETRIES + 2
      [] g.pc = "model"     -> 2 * MAX_RETRIES + 1
      [] g.pc = "attempt"   -> 2 * (MAX_RETRIES - g.attempt)
      [] g.pc = "sleep"     -> 2 * (MAX_RETRIES - g.attempt) - 1
      [] g.pc = "tier_done" -> 0
      [] OTHER              -> 0

\* the steps a request can still take: those of the tier it is in, the
\* step that follows the tier, and for the primary tier all of the fallback's
StepsLeft(g) ==
    IF g.pc \notin AcquirePcs \cup {"attempt", "sleep", "tier_done"} THEN 0
    ELSE TierStepsLeft(g) + 1
         + (IF g.tier = "primary" THEN 2 * MAX_RETRIES + 6 ELSE 0)

\* a request under way has a step to take whatever the model's outcome is
\* (at "tier_done" the guards of GenFallback and GenFinalize are
\* complementary, and GenFinalize assigns a value in every case)
CanStep ==
    /\ gen.pc = "acquire" /\ LockFree(lock) => ENABLED GenLock
    /\ gen.pc = "refill" => ENABLED GenRefill
    /\ gen.pc = "wait" => ENABLED GenWait
    /\ gen.pc = "zero" => ENABLED GenZero
    /\ gen.pc = "take" => ENABLED GenTake
    /\ gen.pc = "model" => ENABLED GenModel(TRUE)
    /\ gen.pc = "attempt" => \A kind \in {"response", "overload", "error"} :
           ENABLED (\E o \in Outcomes : o.kind = kind /\ GenAttempt(o))
    /\ gen.pc = "sleep" => ENABLED (\E jitter \in 0..(Scale - 1) : GenSleep(jitter))
    /\ gen.pc = "tier_done" /\ NeedsFallback(gen) => ENABLED GenFallback

C24_Inv ==
    /\ AttemptsBounded
    /\ UnderWay => StepsLeft(gen) > 0 /\ CanStep

C24_Step ==
    UnderWay =>
        /\ StepsLeft(gen') < StepsLeft(gen)
        /\ UnderWay' \/ Terminal'

\* C24: a request with a non-blank idea reaches a terminal state (it returns
\* a post) whatever the model's outcomes are, after at most MAX_RETRIES
\* attempts per tier and 2 * MAX_RETRIES in all: the attempts stay within
\* these numbers, a request under way can always step, each step strictly
\* lowers the bounded count of the steps left, and the request leaves its
\* course only to a terminal state.
C24_RequestTerminates == []C24_Inv /\ [][C24_Step]_vars

\* what holds of every request: the attempts are bounded, a request under
\* way can step, and each step lowers the count of the steps left
C24_StepsDecrease ==
    UnderWay => StepsLeft(gen') < StepsLeft(gen)

RequestEnds == []C24_Inv /\ [][C24_StepsDecrease]_vars

(***************************************************************************)
(* The backoff sleep of the retrying caller (SpecGen).                     *)
(***************************************************************************)
C25_Step ==
    gen.pc = "sleep" /\ gen'.pc # "sleep" =>
        /\ clock' - clock >= Pow2(gen.attempt) * Scale
        /\ clock' - clock < (Pow2(gen.attempt) + 1) * Scale
        /\ gen'.pc = "attempt"
        /\ gen'.tier = gen.tier
        /\ gen'.idea = gen.idea /\ gen'.ctx = gen.ctx
        /\ gen'.tres[gen.tier] = "pending"

\* C25: the sleep that follows the overload of the attempt with index i lasts
\* at least 2^i and less than 2^i + 1 seconds, and is followed by another
\* attempt on the same tier with the same prompt, never by the tier's failure.
C25_SleepThenRetry == [][C25_Step]_vars

(***************************************************************************)
(* The hashtag lines of the normalised post (SpecText).                    *)
(***************************************************************************)
\* the lines of t whose trimmed form starts with "#"
HashtagLines(t) == SelectSeq(SplitLines(t), IsHashtagLine)

FourOrMore(w) == Len(w) >= 4

\* the first up-to-3 words of the idea with more than 3 characters
Keywords(idea) ==
    LET ws == SelectSeq(SplitWords(idea), FourOrMore)
    IN  SubSeq(ws, 1, Min(3, Len(ws)))

\* the curated line: each keyword capitalized and prefixed with "#"
RECURSIVE CuratedLine(_)
CuratedLine(kws) ==
    IF kws = <<>> THEN <<>>
    ELSE <<"#">> \o Capitalize(Head(kws))
         \o (IF Len(kws) > 1 THEN <<" ">> \o CuratedLine(Tail(kws)) ELSE <<>>)

ExpectedHashtagLines(idea) ==
    IF Keywords(idea) = <<>> THEN <<>> ELSE <<CuratedLine(Keywords(idea))>>

\* C26: the lines of the normalised post that start with "#" are
\* the curated line alone, present exactly when the idea has a word longer
\* than 3 characters.
C26_OnlyCuratedHashtags ==
    NormalizedOnce => HashtagLines(calc.once) = ExpectedHashtagLines(calc.idea)

(***************************************************************************)
(* What a cache hit and cacheStatus leave alone (Spec).                    *)
(***************************************************************************)
\* thread r takes a step of the cache-hit branch: the measure of the entry's
\* age, the read of the entry or the answer built from it
HitStep(r) ==
    \/ req[r].pc \in {"clock", "mtime", "read", "load", "reading"}
    \/ req[r].pc \in {"post", "metaclock", "meta"} /\ req[r].used

\* handler thread h takes a step of cache_status()
StatusStep(h) ==
    \/ hand[h].pc = "idle" /\ (out'.op = "status" \/ hand'[h].pc = "clock")
    \/ hand[h].pc \in {"clock", "mtime"} /\ hand'[h] # hand[h]

\* thread r takes a step of a rebuild that writes the file of key k
WriteStep(r, k) == req[r].pc \in {"open", "dump"} /\ req[r].key = k

C27_Step ==
    /\ (\E r \in Reqs : HitStep(r) /\ <<req'[r].pc, req'[r].off>> # <<req[r].pc, req[r].off>>)
           => cache' = cache
    /\ (\E h \in Hands : StatusStep(h)) => cache' = cache
    /\ \A k \in Keys :
        /\ (cache[k].exists /\ cache'[k].exists /\ cache'[k] # cache[k]) =>
               /\ \E r \in Reqs : WriteStep(r, k)
               /\ cache'[k].mtime = now
        /\ (cache[k].exists /\ ~cache'[k].exists) =>
               out'.op = "clear" /\ out'.key = k
        /\ (cache[k].exists /\ cache'[k] = cache[k]) =>
               AgeOf(k)' = AgeOf(k) + (now' - now)
    /\ \A r \in Reqs :
           (/\ req[r].pc = "mtime" /\ req'[r].pc # "mtime"
            /\ cache[req[r].key].exists
            /\ req[r].t - cache[req[r].key].mtime >= CACHE_DURATION_HOURS) =>
               req'[r].pc = "scrape"

\* C27: a cache hit and a cacheStatus call leave every entry and its
\* modification time as they were; the age of an entry grows with the clock
\* from its last write, a generate that finds it TTL hours old or older
\* rebuilds; only a rebuild's write resets the age and only clearCache removes
\* the entry.
C27_HitsLeaveEntryAlone == [][C27_Step]_vars

\* a cache hit has been answered for an entry written TickHours before, and
\* the entry still carries the time of that write
C27_Witness ==
    /\ out.op = "generate" /\ out.status = 200 /\ out.used
    /\ out.age = Hours(TickHours)
    /\ cache[out.key].exists /\ cache[out.key].mtime = now - TickHours

(***************************************************************************)
(* Profile names that share a cache key (Spec).                            *)
(***************************************************************************)
\* the profile names, as the handlers trim them, whose cache key is k
NamesOf(k) == { Strip(n) : n \in { m \in Names : get_cache_path(Strip(m)) = k } }

\* names that differ in case and punctuation only have one key, names that
\* differ in a letter have two; a request under way works on the key of its
\* name, and a file is the entry of the name that wrote it
C28_Inv ==
    /\ get_cache_path(<<"A">>) = <<"a">>
    /\ get_cache_path(<<"a", " ", "!">>) = <<"a">>
    /\ get_cache_path(<<"a", " ", "b">>) = <<"a", "_", "b">>
    /\ \A r \in Reqs : req[r].pc # "idle" => req[r].key = get_cache_path(req[r].name)
    /\ \A k \in Keys : cache[k].exists => cache[k].by \in NamesOf(k)

C28_Step ==
    /\ \A r \in Reqs :
        /\ (req[r].pc = "idle" /\ req'[r].pc # "idle" /\ ~req'[r].force) =>
               \A m \in NamesOf(req'[r].key) :
                   (cache[req'[r].key].exists /\ cache[req'[r].key].by = m) =>
                       req'[r].pc = "clock"
        /\ (req[r].pc = "mtime" /\ req'[r].pc # "mtime") =>
               \A m \in NamesOf(req[r].key) :
                   (/\ cache[req[r].key].exists /\ cache[req[r].key].by = m
                    /\ req[r].t - cache[req[r].key].mtime < CACHE_DURATION_HOURS
                    /\ ~req[r].force) =>
                       req'[r].pc = "read"
        /\ Moves(r, "reading", "post") =>
               /\ req'[r].used
               /\ cache[req[r].key].exists =>
                      cache[req[r].key].content = Artifact(req'[r].td)
    /\ (out'.op = "clear" /\ out'.status = 200) =>
           \A m \in NamesOf(out'.key) : ~cache'[get_cache_path(m)].exists
    /\ \A k \in Keys :
           (out'.op = "clear" /\ cache[k].exists /\ out'.key = k) => out'.status = 200

\* C28: there is one cache entry per normalized key, so two profile names
\* with the same key share it: after a rebuild for one, a generate for the
\* other within the TTL is a cache hit that uses the payload the first one
\* stored, and clearCache for either name removes the entry of both.
C28_SharedEntryPerKey == []C28_Inv /\ [][C28_Step]_vars

\* a generate for "a !" has read, as a cache hit, the payload that a rebuild
\* for "A" stored
C28_Witness ==
    /\ req["r1"].pc = "post" /\ req["r1"].used
    /\ req["r1"].name = <<"a", " ", "!">>
    /\ cache[<<"a">>].exists /\ cache[<<"a">>].by = <<"A">>
    /\ cache[<<"a">>].content = Artifact(req["r1"].td)

====
